---- MODULE Spec2Model ----
(***************************************************************************)
(* Model of the SVCS command line tool (src/main.go).                      *)
(*                                                                         *)
(* Text is modelled at token granularity: a Go string is a sequence of     *)
(* tokens, a token being a substring the code never looks inside ("vcs",   *)
(* "/", "\n", "commit ", a file name, a hash).  strings.Split,             *)
(* strings.TrimPrefix, strings.HasPrefix, strings.TrimSpace and            *)
(* filepath.Join work on these sequences as the library works on bytes.    *)
(* The file system is one map from cleaned paths to file contents plus a   *)
(* set of directories; index.txt, log.txt and config.txt are ordinary      *)
(* files of that map.  One action is one invocation of the program (one    *)
(* command run to its exit, log.Fatal included) or one edit of the working *)
(* tree by the user between invocations.  A second set of actions runs   *)
(* add and commit call by call, for two invocations at the same time.      *)
(***************************************************************************)
EXTENDS Integers, Sequences, FiniteSets, TLC

VARIABLES files, dirs, clock, out, names, staged, history, procs

vars == <<files, dirs, clock, out, names, staged, history, procs>>

(***************************************************************************)
(* Bounds.                                                                 *)
(***************************************************************************)
MaxClock == 2
MaxIndexLen == 4

(***************************************************************************)
(* Tokens and program constants.                                           *)
(***************************************************************************)
NL == "\n"
SL == "/"

configPath == <<"vcs", SL, "config.txt">>
indexFilePath == <<"vcs", SL, "index.txt">>
commitDir == <<"vcs", SL, "commits">>
logFilePath == <<"vcs", SL, "log.txt">>

(***************************************************************************)
(* String library.                                                         *)
(***************************************************************************)
\* The first position at or after i where sep occurs in s, 0 if none.
RECURSIVE Index(_, _, _)
Index(s, sep, i) ==
  IF i + Len(sep) - 1 > Len(s) THEN 0
  ELSE IF SubSeq(s, i, i + Len(sep) - 1) = sep THEN i
  ELSE Index(s, sep, i + 1)

HasPrefix(s, p) == Len(s) >= Len(p) /\ SubSeq(s, 1, Len(p)) = p

TrimPrefix(s, p) == IF HasPrefix(s, p) THEN SubSeq(s, Len(p) + 1, Len(s)) ELSE s

RECURSIVE Split(_, _)
Split(s, sep) ==
  LET i == Index(s, sep, 1)
  IN IF i = 0 THEN <<s>>
     ELSE <<SubSeq(s, 1, i - 1)>> \o Split(SubSeq(s, i + Len(sep), Len(s)), sep)

RECURSIVE JoinWith(_, _)
JoinWith(parts, sep) ==
  IF parts = <<>> THEN <<>>
  ELSE IF Len(parts) = 1 THEN parts[1]
  ELSE parts[1] \o sep \o JoinWith(Tail(parts), sep)

Range(q) == {q[i] : i \in DOMAIN q}

IsSpace(t) == t \in {" ", NL}

RECURSIVE TrimLeft(_)
TrimLeft(s) == IF s # <<>> /\ IsSpace(Head(s)) THEN TrimLeft(Tail(s)) ELSE s

RECURSIVE TrimRight(_)
TrimRight(s) ==
  IF s # <<>> /\ IsSpace(s[Len(s)]) THEN TrimRight(SubSeq(s, 1, Len(s) - 1)) ELSE s

TrimSpace(s) == TrimRight(TrimLeft(s))

RECURSIVE CleanStack(_, _)
CleanStack(comps, stack) ==
  IF comps = <<>> THEN stack
  ELSE LET c == Head(comps)
           r == Tail(comps)
       IN IF c = <<>> \/ c = <<".">> THEN CleanStack(r, stack)
          ELSE IF c = <<"..">> /\ stack # <<>> /\ stack[Len(stack)] # <<"..">>
               THEN CleanStack(r, SubSeq(stack, 1, Len(stack) - 1))
               ELSE CleanStack(r, Append(stack, c))

CleanJoin(st) == IF st = <<>> THEN <<".">> ELSE JoinWith(st, <<SL>>)

Clean(p) == CleanJoin(CleanStack(Split(p, <<SL>>), <<>>))

JoinClean(ne) == IF ne = <<>> THEN <<>> ELSE Clean(JoinWith(ne, <<SL>>))

Join(elems) == JoinClean(SelectSeq(elems, LAMBDA e : e # <<>>))

hashContent(content) == <<ToString(content)>>

Sprintd(n) == <<ToString(n)>>

(***************************************************************************)
(* File system.  fs is a record [f |-> files, d |-> dirs].                 *)
(***************************************************************************)
ButLast(cs) == IF Len(cs) <= 1 THEN <<".">> ELSE JoinWith(SubSeq(cs, 1, Len(cs) - 1), <<SL>>)

Parent(p) == ButLast(Split(p, <<SL>>))

Last(cs) == cs[Len(cs)]

Base(p) == Last(Split(p, <<SL>>))

IsFile(fs, p) == Clean(p) \in DOMAIN fs.f

IsDir(fs, p) == Clean(p) \in fs.d

Exists(fs, p) == IsFile(fs, p) \/ IsDir(fs, p)

WriteTo(fs, p, c) == [fs EXCEPT !.f = (Clean(p) :> c) @@ fs.f]

MkdirAll(fs, p) == [fs EXCEPT !.d = fs.d \cup {Clean(p)}]

\* The proper ancestors of a path: "a" for "a/b".
Ancestors(p) ==
  {JoinWith(SubSeq(Split(p, <<SL>>), 1, n), <<SL>>) : n \in 1..(Len(Split(p, <<SL>>)) - 1)}

\* os.IsNotExist(err) for the err of os.Stat(p): true for ENOENT; a path
\* that runs through a regular file fails with ENOTDIR, which os.IsNotExist
\* does not report.
IsNotExist(fs, p) ==
  /\ ~Exists(fs, p)
  /\ \A q \in Ancestors(Clean(p)) : ~IsFile(fs, q)

ReadDir(fs, p) ==
  {Base(q) : q \in {x \in (DOMAIN fs.f) \cup fs.d : x # <<".">> /\ Parent(x) = Clean(p)}}

(***************************************************************************)
(* Inputs.                                                                 *)
(***************************************************************************)
FileA == <<"a">>
FileVcsA == <<"vcs", SL, "a">>
FileNl == <<"a", NL, "b">>
FileUnderA == <<"a", SL, "b">>

\* A file outside the working directory, in a sibling directory that has the
\* name of the first commit of the plain file (made at time 1).
FileUp == <<"..", SL>> \o hashContent(FileA \o <<NL>> \o Sprintd(1)) \o <<SL>> \o FileA

\* The file names the user works with in one run: a plain file alone, a
\* plain file and a file of the same name under vcs/, a plain file and a
\* file whose name contains a line break, or a plain file and a file outside
\* the working directory.
Scenarios == {{FileA}, {FileA, FileVcsA}, {FileA, FileNl}, {FileA, FileUp}}

\* What the user may write into file p: the plain file takes two contents
\* when it is alone; with a second file each file takes one content, and the
\* two files differ.
Contents(p) ==
  IF names = {FileA} THEN {<<"hello">>, <<"hello", " ", "world">>}
  ELSE IF p = FileA THEN {<<"hello", " ", "world">>}
  ELSE {<<"hello">>}

Authors == {<<"alice">>}

\* Commit messages: none, only white space, and a word.
Messages == {<<>>, <<" ">>, <<"first">>}

\* Commit messages of several lines: a line that starts with "Author: ", a
\* line that starts with "commit ", and a blank line.
MsgAuthorLine == <<"first", NL, "Author: ", "bob">>
MsgCommitLine == <<"first", NL, "commit ", "x">>
MsgBlankLine == <<"first", NL, NL, "more">>

LineMessages == {MsgAuthorLine, MsgCommitLine, MsgBlankLine}

(***************************************************************************)
(* CONFIG                                                                  *)
(***************************************************************************)
doesConfigExist(fs) == Exists(fs, configPath)

setupConfig(fs, name) ==
  IF name = <<>>
  THEN [fs |-> fs,
        out |-> IF doesConfigExist(fs) THEN "The username is" ELSE "Please, tell me who you are."]
  ELSE [fs |-> WriteTo(fs, configPath, name), out |-> "The username is"]

handleConfig(fs, args) ==
  IF Len(args) > 0 THEN setupConfig(fs, args[1])
  ELSE [fs |-> fs,
        out |-> IF IsFile(fs, configPath) /\ fs.f[configPath] # <<>>
                THEN "The username is" ELSE "Please, tell me who you are."]

(***************************************************************************)
(* ADD                                                                     *)
(***************************************************************************)
\* Mutant: only the existence of index.txt is tested, not its size.
isIndexEmpty_ExistenceOnly(fs) == ~IsFile(fs, indexFilePath)

isIndexEmpty(fs) == ~IsFile(fs, indexFilePath) \/ fs.f[indexFilePath] = <<>>

isFileTracked(fs, filePath) ==
  \E path \in Range(Split(fs.f[indexFilePath], <<NL>>)) : path = filePath

createIndex(fs, addedFile) ==
  WriteTo(fs, indexFilePath,
          (IF IsFile(fs, indexFilePath) THEN fs.f[indexFilePath] ELSE <<>>)
            \o addedFile \o <<NL>>)

setupAdd(fs, file) ==
  IF file = <<>>
  THEN [fs |-> fs, tracked |-> {},
        out |-> IF isIndexEmpty(fs) THEN "Add a file to the index." ELSE "Tracked files:"]
  ELSE IF IsNotExist(fs, file)
  THEN [fs |-> fs, tracked |-> {}, out |-> "Can't find"]
  ELSE IF isFileTracked(fs, file)
  THEN [fs |-> fs, tracked |-> {}, out |-> "is already tracked."]
  ELSE [fs |-> createIndex(fs, file), tracked |-> {file}, out |-> "is tracked."]

addArgs(fs, args) ==
  IF Len(args) > 0 THEN setupAdd(fs, args[1])
  ELSE [fs |-> fs, tracked |-> {},
        out |-> IF fs.f[indexFilePath] # <<>> THEN "Tracked files:"
                ELSE "Add a file to the index."]

handleAdd(fs, args) ==
  IF ~Exists(fs, indexFilePath) THEN addArgs(WriteTo(fs, indexFilePath, <<>>), args)
  ELSE addArgs(fs, args)

(***************************************************************************)
(* COMMITS                                                                 *)
(***************************************************************************)
\* Mutant: the arguments are joined but not trimmed.
getMessageFromArgs_NoTrim(args) == JoinWith(args, <<" ">>)

getMessageFromArgs(args) == TrimSpace(JoinWith(args, <<" ">>))

\* Mutant: the identifier is the hash of the index content alone.
createId_NoTimestamp(fs, now) ==
  IF ~IsFile(fs, indexFilePath) \/ fs.f[indexFilePath] = <<>>
  THEN [id |-> <<>>, err |-> TRUE]
  ELSE [id |-> hashContent(fs.f[indexFilePath]), err |-> FALSE]

\* err when index.txt cannot be read or is empty.
createId(fs, now) ==
  IF ~IsFile(fs, indexFilePath) \/ fs.f[indexFilePath] = <<>>
  THEN [id |-> <<>>, err |-> TRUE]
  ELSE [id |-> hashContent(fs.f[indexFilePath] \o Sprintd(now)), err |-> FALSE]

\* Result: the path of the commit directory and the file system after
\* os.Mkdir; err when os.Mkdir fails (parent missing).
createCommitDir(fs, HashID) ==
  IF ~Exists(fs, commitDir \o <<SL>> \o HashID)
  THEN IF IsDir(fs, commitDir)
       THEN [fs |-> MkdirAll(fs, commitDir \o <<SL>> \o HashID),
             path |-> commitDir \o <<SL>> \o HashID, err |-> FALSE]
       ELSE [fs |-> fs, path |-> <<>>, err |-> TRUE]
  ELSE [fs |-> fs, path |-> commitDir \o <<SL>> \o HashID, err |-> FALSE]

\* Mutant: the identifier of the oldest entry of log.txt is taken.
firstLogId_Oldest(fs) ==
  IF ~IsFile(fs, logFilePath) THEN <<>>
  ELSE TrimPrefix(Split(Split(fs.f[logFilePath], <<NL, NL>>)
                          [Len(Split(fs.f[logFilePath], <<NL, NL>>)) - 1], <<NL>>)[1],
                  <<"commit ">>)

\* The identifier on the first line of log.txt ("" when there is no log).
firstLogId(fs) ==
  IF ~IsFile(fs, logFilePath) THEN <<>>
  ELSE TrimPrefix(Split(fs.f[logFilePath], <<NL>>)[1], <<"commit ">>)

\* Result: the file system after os.MkdirAll(commitDir), and the identifier
\* of the last commit.
getLastCommitID(fs) ==
  IF ~Exists(fs, commitDir)
  THEN [fs |-> MkdirAll(fs, commitDir), id |-> firstLogId(fs)]
  ELSE [fs |-> fs, id |-> firstLogId(fs)]

\* The place where the change detector looks for the last commit's copy of
\* filePath.
lastCommitFilePath(filePath, commitDirPath) ==
  LET relativePath == TrimPrefix(filePath, commitDir)
  IN Join(<<commitDir, commitDirPath, relativePath>>)

\* "true", "false", or "fatal" when a file cannot be read.
compareFiles(fs, filePath, lastCommitFile) ==
  IF Exists(fs, lastCommitFile)
  THEN IF ~IsFile(fs, lastCommitFile) \/ ~IsFile(fs, filePath) THEN "fatal"
       ELSE IF hashContent(fs.f[lastCommitFile]) # hashContent(fs.f[Clean(filePath)])
            THEN "true" ELSE "false"
  ELSE "true"

fileHasChanges(fs, filePath, commitDirPath) ==
  compareFiles(fs, filePath, lastCommitFilePath(filePath, commitDirPath))

RECURSIVE hasChanges(_, _, _)
hasChanges(fs, filePaths, commitDirPath) ==
  IF filePaths = <<>> THEN "false"
  ELSE IF Head(filePaths) = <<>> THEN hasChanges(fs, Tail(filePaths), commitDirPath)
  ELSE IF fileHasChanges(fs, Head(filePaths), commitDirPath) = "false"
       THEN hasChanges(fs, Tail(filePaths), commitDirPath)
       ELSE fileHasChanges(fs, Head(filePaths), commitDirPath)

compareWith(last) ==
  [fs |-> last.fs,
   changes |-> IF last.id = <<>> THEN "true"
               ELSE hasChanges(last.fs, Split(last.fs.f[indexFilePath], <<NL>>), last.id)]

compareWithLastCommit(fs) == compareWith(getLastCommitID(fs))

\* os.Open(src), os.Create(dst), io.Copy, Sync.
copyFile(fs, src, dst) ==
  IF ~Exists(fs, src) THEN [fs |-> fs, err |-> TRUE]
  ELSE IF ~IsDir(fs, Parent(Clean(dst))) \/ IsDir(fs, dst) THEN [fs |-> fs, err |-> TRUE]
  ELSE IF IsDir(fs, src) THEN [fs |-> WriteTo(fs, dst, <<>>), err |-> TRUE]
  ELSE [fs |-> WriteTo(fs, dst, fs.f[Clean(src)]), err |-> FALSE]

storePath(commitDirPath, filePath) ==
  Join(<<commitDirPath, TrimPrefix(filePath, <<"vcs", SL>>)>>)

RECURSIVE copyLoop(_, _, _)
copyRest(r, filePaths, commitDirPath) ==
  IF r.err THEN r ELSE copyLoop(r.fs, filePaths, commitDirPath)

copyLoop(fs, filePaths, commitDirPath) ==
  IF filePaths = <<>> THEN [fs |-> fs, err |-> FALSE]
  ELSE IF Head(filePaths) = <<>> THEN copyLoop(fs, Tail(filePaths), commitDirPath)
  ELSE copyRest(copyFile(fs, Head(filePaths), storePath(commitDirPath, Head(filePaths))),
                Tail(filePaths), commitDirPath)

copyFilesToCommitDir(fs, commitDirPath) ==
  IF ~Exists(fs, commitDir)
  THEN copyLoop(MkdirAll(fs, commitDir), Split(fs.f[indexFilePath], <<NL>>), commitDirPath)
  ELSE copyLoop(fs, Split(fs.f[indexFilePath], <<NL>>), commitDirPath)

(***************************************************************************)
(* LOG                                                                     *)
(***************************************************************************)
newCommitInfo(c) ==
  <<"commit ">> \o c.HashID \o <<NL>> \o <<"Author: ">> \o c.Author
    \o <<NL>> \o c.Message \o <<NL, NL>>

existingLogContent(fs) == IF IsFile(fs, logFilePath) THEN fs.f[logFilePath] ELSE <<>>

\* Mutant: the new entry is written after the existing entries.
createLog_Append(fs, c) ==
  WriteTo(fs, logFilePath, existingLogContent(fs) \o newCommitInfo(c))

createLog(fs, c) ==
  WriteTo(fs, logFilePath, newCommitInfo(c) \o existingLogContent(fs))

readCommits(fs) ==
  IF ~IsDir(fs, commitDir) \/ ReadDir(fs, commitDir) = {} THEN "No commits yet."
  ELSE IF ~IsFile(fs, logFilePath) THEN "fatal" ELSE "log"

handleLog(fs, args) == IF Len(args) > 0 THEN "Too many arguments." ELSE readCommits(fs)

\* Result of one run of the commit command: the file system it leaves, what
\* it printed, whether it read the clock, and the commit it recorded (a set
\* of at most one Commit).
ended(fs, text, timed) == [fs |-> fs, out |-> text, timed |-> timed, commit |-> {}]

\* Mutant: a successful commit empties the staging index.
commitCopied_ClearIndex(cp, newCommit) ==
  IF cp.err THEN ended(cp.fs, "fatal", TRUE)
  ELSE [fs |-> WriteTo(createLog(cp.fs, newCommit), indexFilePath, <<>>),
        out |-> "Changes are committed.", timed |-> TRUE, commit |-> {newCommit}]

\* After copyFilesToCommitDir: createLog.
commitCopied(cp, newCommit) ==
  IF cp.err THEN ended(cp.fs, "fatal", TRUE)
  ELSE [fs |-> createLog(cp.fs, newCommit), out |-> "Changes are committed.",
        timed |-> TRUE, commit |-> {newCommit}]

\* After createCommitDir: copyFilesToCommitDir.
commitInDir(mk, newCommit) ==
  IF mk.err THEN ended(mk.fs, "fatal", TRUE)
  ELSE commitCopied(copyFilesToCommitDir(mk.fs, mk.path), newCommit)

\* After createId: createCommitDir.
commitWithId(fs, cid, message) ==
  IF cid.err THEN ended(fs, "fatal", FALSE)
  ELSE commitInDir(createCommitDir(fs, cid.id),
                   [HashID |-> cid.id, Author |-> fs.f[configPath], Message |-> message])

\* After compareWithLastCommit: createCommit (readConfig) and createId.
commitChanges(cmp, message, now) ==
  IF cmp.changes = "fatal" THEN ended(cmp.fs, "fatal", FALSE)
  ELSE IF cmp.changes = "false" THEN ended(cmp.fs, "Nothing to commit.", FALSE)
  ELSE IF ~IsFile(cmp.fs, configPath) THEN ended(cmp.fs, "fatal", FALSE)
  ELSE commitWithId(cmp.fs, createId(cmp.fs, now), message)

commitMessage(fs, message, now) ==
  IF message = <<>> THEN ended(fs, "Message was not passed.", FALSE)
  ELSE IF isIndexEmpty(fs) THEN ended(fs, "Nothing to commit.", FALSE)
  ELSE commitChanges(compareWithLastCommit(fs), message, now)

handleCommit(fs, args, now) == commitMessage(fs, getMessageFromArgs(args), now)

(***************************************************************************)
(* CHECKOUT                                                                *)
(***************************************************************************)
RECURSIVE lastAuthor(_, _)
lastAuthor(lines, author) ==
  IF lines = <<>> THEN author
  ELSE IF HasPrefix(Head(lines), <<"Author: ">>)
       THEN lastAuthor(Tail(lines), TrimPrefix(Head(lines), <<"Author: ">>))
       ELSE lastAuthor(Tail(lines), author)

RECURSIVE messageOf(_)
messageOf(lines) ==
  IF lines = <<>> THEN <<>>
  ELSE IF ~HasPrefix(Head(lines), <<"Author: ">>) /\ ~HasPrefix(Head(lines), <<"commit ">>)
       THEN Head(lines) \o <<NL>> \o messageOf(Tail(lines))
       ELSE messageOf(Tail(lines))

RECURSIVE findEntry(_, _)
matchEntry(lines, commitEntries, id) ==
  IF TrimPrefix(lines[1], <<"commit ">>) = id
  THEN [status |-> "found",
        commit |-> [HashID |-> TrimPrefix(lines[1], <<"commit ">>),
                    Author |-> lastAuthor(lines, <<>>),
                    Message |-> TrimSpace(messageOf(lines))]]
  ELSE findEntry(Tail(commitEntries), id)

findEntry(commitEntries, id) ==
  IF commitEntries = <<>> THEN [status |-> "nil"]
  ELSE matchEntry(Split(Head(commitEntries), <<NL>>), commitEntries, id)

findCommitById(fs, id) ==
  IF ~Exists(fs, Join(<<commitDir, id>>)) THEN [status |-> "nil"]
  ELSE IF ~IsFile(fs, logFilePath) THEN [status |-> "fatal"]
  ELSE findEntry(Split(fs.f[logFilePath], <<NL, NL>>), id)

\* All orders in which the entries of a directory can be listed: os.ReadDir
\* sorts by file name, and the order of hash names is not modelled.
RECURSIVE Orders(_)
Orders(S) ==
  IF S = {} THEN {<<>>}
  ELSE UNION {{<<x>> \o o : o \in Orders(S \ {x})} : x \in S}

RECURSIVE restoreLoop(_, _, _)
restoreRest(r, commitDirPath, commitFiles) ==
  IF r.err THEN r ELSE restoreLoop(r.fs, commitDirPath, commitFiles)

restoreLoop(fs, commitDirPath, commitFiles) ==
  IF commitFiles = <<>> THEN [fs |-> fs, err |-> FALSE]
  ELSE restoreRest(copyFile(fs, Join(<<commitDirPath, Head(commitFiles)>>),
                            Join(<<<<".">>, Head(commitFiles)>>)),
                   commitDirPath, Tail(commitFiles))

restored(r) == [fs |-> r.fs, out |-> IF r.err THEN "fatal" ELSE "Switched to commit"]

\* Mutant: the working-tree files that the snapshot does not hold are removed
\* before the copy loop.
restoreAll_Pruning(fs, commitDirPath) ==
  IF ~IsDir(fs, commitDirPath) THEN {[fs |-> fs, out |-> "fatal"]}
  ELSE {restored(restoreLoop(
            [fs EXCEPT !.f = [q \in {x \in DOMAIN fs.f :
                                       \/ Len(Split(x, <<SL>>)) > 1
                                       \/ x \in ReadDir(fs, commitDirPath)} |-> fs.f[q]]],
            commitDirPath, o)) : o \in Orders(ReadDir(fs, commitDirPath))}

\* The possible results of the copy loop of checkout.
restoreAll(fs, commitDirPath) ==
  IF ~IsDir(fs, commitDirPath) THEN {[fs |-> fs, out |-> "fatal"]}
  ELSE {restored(restoreLoop(fs, commitDirPath, o)) : o \in Orders(ReadDir(fs, commitDirPath))}

switchFound(fs, commit, commitID) ==
  IF commit.status = "nil" THEN {[fs |-> fs, out |-> "Commit does not exist."]}
  ELSE IF commit.status = "fatal" THEN {[fs |-> fs, out |-> "fatal"]}
  ELSE restoreAll(fs, Join(<<commitDir, commitID>>))

\* The set of possible results of one run of checkout.
switchCommit(fs, commitID) == switchFound(fs, findCommitById(fs, commitID), commitID)

handleCheckout(fs, args) ==
  IF Len(args) # 1 THEN {[fs |-> fs, out |-> "Commit id was not passed."]}
  ELSE switchCommit(fs, args[1])

(***************************************************************************)
(* State machine.                                                          *)
(***************************************************************************)
Fs == [f |-> files, d |-> dirs]

IndexLines(fs) ==
  IF IsFile(fs, indexFilePath)
  THEN SelectSeq(Split(fs.f[indexFilePath], <<NL>>), LAMBDA l : l # <<>>)
  ELSE <<>>

\* Identifiers a user can pass to checkout: the names under vcs/commits and
\* a name of no directory.
CheckoutArgs == ReadDir(Fs, commitDir) \cup {<<"x">>}

\* The same with the empty string and ".." (vcs itself).
OddCheckoutArgs == CheckoutArgs \cup {<<>>, <<"..">>}

\* The number of commits of a run: with the plain file alone one more, so
\* that a commit can follow the checkout of the older of two commits.
ClockBound == IF names = {FileA} THEN MaxClock + 1 ELSE MaxClock

\* Paths a user can pass to add: the files of the run.
AddArgs == names

\* The same with a path below the plain file.
OddAddArgs == AddArgs \cup {FileUnderA}

\* The invocations that can run at the same time, and the state of one that
\* is not running.
Procs == {1, 2}

NoCommit == [HashID |-> <<>>, Author |-> <<>>, Message |-> <<>>]

Idle == [pc |-> "idle", file |-> <<>>, commit |-> NoCommit, path |-> <<>>,
         todo |-> <<>>, existing |-> <<>>]

Init ==
  /\ files = << >>
  /\ dirs = {<<".">>, <<"vcs">>}
  /\ clock = 1
  /\ out = ""
  /\ names \in Scenarios
  /\ staged = {}
  /\ history = <<>>
  /\ procs = [i \in Procs |-> Idle]

Config(args) ==
  \E r \in {handleConfig(Fs, args)} :
     /\ files' = r.fs.f
     /\ dirs' = r.fs.d
     /\ out' = r.out
     /\ UNCHANGED <<clock, names, staged, history, procs>>

Add(args) ==
  \E r \in {handleAdd(Fs, args)} :
     /\ Len(IndexLines(r.fs)) <= MaxIndexLen
     /\ files' = r.fs.f
     /\ dirs' = r.fs.d
     /\ out' = r.out
     /\ staged' = staged \cup r.tracked
     /\ UNCHANGED <<clock, names, history, procs>>

\* What the history records of a commit: the Commit, index.txt, and the
\* staged paths with their working-tree content, all at commit time.
Recorded(c) ==
  [commit |-> c,
   index |-> files[indexFilePath],
   paths |-> staged,
   content |-> [p \in staged |-> files[Clean(p)]]]

Commit(args) ==
  \E r \in {handleCommit(Fs, args, clock)} :
     /\ r.timed => clock <= ClockBound
     /\ files' = r.fs.f
     /\ dirs' = r.fs.d
     /\ out' = r.out
     /\ clock' = IF r.timed THEN clock + 1 ELSE clock
     /\ \/ r.commit = {} /\ history' = history
        \/ \E c \in r.commit : history' = Append(history, Recorded(c))
     /\ UNCHANGED <<names, staged, procs>>

Checkout(args) ==
  \E r \in handleCheckout(Fs, args) :
     /\ files' = r.fs.f
     /\ dirs' = r.fs.d
     /\ out' = r.out
     /\ UNCHANGED <<clock, names, staged, history, procs>>

Log(args) ==
  /\ out' = handleLog(Fs, args)
  /\ UNCHANGED <<files, dirs, clock, names, staged, history, procs>>

\* The user writes or deletes a file of the working tree between two runs.
WriteFile(p, c) ==
  /\ files' = (p :> c) @@ files
  /\ out' = ""
  /\ UNCHANGED <<dirs, clock, names, staged, history, procs>>

DeleteFile(p) ==
  /\ p \in DOMAIN files
  /\ files' = [q \in (DOMAIN files) \ {p} |-> files[q]]
  /\ out' = ""
  /\ UNCHANGED <<dirs, clock, names, staged, history, procs>>

Next ==
  \/ \E n \in Authors : Config(<<n>>)
  \/ \E p \in AddArgs : Add(<<p>>)
  \/ \E m \in Messages : Commit(<<m>>)
  \/ \E id \in CheckoutArgs : Checkout(<<id>>)
  \/ Log(<<>>)
  \/ \E p \in names : \E c \in Contents(p) : WriteFile(p, c)
  \/ \E p \in names : DeleteFile(p)

Spec == Init /\ [][Next]_vars

\* The runs in which the user works with the plain file alone.
InitPlain == Init /\ names = {FileA}

SpecPlain == InitPlain /\ [][Next]_vars

(***************************************************************************)
(* Add and commit, one file system call at a time.  procs[i] holds the     *)
(* position of invocation i and its local variables.                       *)
(***************************************************************************)
\* Mutant: the log entry is written before the files are copied.
stepAfter_LogFirst(pc) ==
  CASE pc = "createCommitDir" -> "readLog"
    [] pc = "writeLog" -> "readIndex"
    [] pc = "copy" -> "exit"

\* The order of the calls of handleCommit after createId.
stepAfter(pc) ==
  CASE pc = "createCommitDir" -> "readIndex"
    [] pc = "copy" -> "readLog"
    [] pc = "writeLog" -> "exit"

\* Invocation i goes on to the step named by pc, or exits with the message
\* of a finished commit.
Goto(i, pc, loc) ==
  /\ procs' = [procs EXCEPT ![i] = IF pc = "exit" THEN Idle ELSE [loc EXCEPT !.pc = pc]]
  /\ out' = IF pc = "exit" THEN "Changes are committed." ELSE out

Exit(i, text) ==
  /\ procs' = [procs EXCEPT ![i] = Idle]
  /\ out' = text

\* handleAdd up to isFileTracked: index.txt is created when missing, the
\* file is looked for, index.txt is read.
AddCheck(i, file) ==
  /\ procs[i].pc = "idle"
  /\ \E fs \in {IF ~Exists(Fs, indexFilePath) THEN WriteTo(Fs, indexFilePath, <<>>) ELSE Fs} :
       /\ files' = fs.f
       /\ dirs' = fs.d
       /\ IF IsNotExist(fs, file) THEN Exit(i, "Can't find")
          ELSE IF isFileTracked(fs, file) THEN Exit(i, "is already tracked.")
          ELSE Goto(i, "createIndex", [Idle EXCEPT !.file = file])
  /\ UNCHANGED <<clock, names, staged, history>>

\* createIndex: the path is appended to index.txt.
AddAppend(i) ==
  /\ procs[i].pc = "createIndex"
  /\ Len(IndexLines(Fs)) < MaxIndexLen
  /\ files' = createIndex(Fs, procs[i].file).f
  /\ staged' = staged \cup {procs[i].file}
  /\ Exit(i, "is tracked.")
  /\ UNCHANGED <<dirs, clock, names, history>>

\* handleCommit up to createId: the checks of the message, the index and the
\* changes, the author, the identifier.
startCommit(cmp, message, now) ==
  IF cmp.changes = "fatal" THEN [fs |-> cmp.fs, out |-> "fatal", commit |-> {}]
  ELSE IF cmp.changes = "false" THEN [fs |-> cmp.fs, out |-> "Nothing to commit.", commit |-> {}]
  ELSE IF ~IsFile(cmp.fs, configPath) \/ createId(cmp.fs, now).err
       THEN [fs |-> cmp.fs, out |-> "fatal", commit |-> {}]
  ELSE [fs |-> cmp.fs, out |-> "",
        commit |-> {[HashID |-> createId(cmp.fs, now).id,
                     Author |-> cmp.fs.f[configPath],
                     Message |-> message]}]

CommitStart(i, args) ==
  /\ procs[i].pc = "idle"
  /\ IF getMessageFromArgs(args) = <<>>
     THEN Exit(i, "Message was not passed.") /\ UNCHANGED <<files, dirs, clock>>
     ELSE IF isIndexEmpty(Fs)
     THEN Exit(i, "Nothing to commit.") /\ UNCHANGED <<files, dirs, clock>>
     ELSE \E r \in {startCommit(compareWithLastCommit(Fs), getMessageFromArgs(args), clock)} :
            /\ files' = r.fs.f
            /\ dirs' = r.fs.d
            /\ \/ /\ r.commit = {}
                  /\ Exit(i, r.out)
                  /\ clock' = clock
               \/ \E c \in r.commit :
                    /\ clock <= MaxClock
                    /\ clock' = clock + 1
                    /\ Goto(i, "createCommitDir", [Idle EXCEPT !.commit = c])
  /\ UNCHANGED <<names, staged, history>>

\* createCommitDir.
CommitMkdir(i) ==
  /\ procs[i].pc = "createCommitDir"
  /\ \E mk \in {createCommitDir(Fs, procs[i].commit.HashID)} :
       /\ files' = mk.fs.f
       /\ dirs' = mk.fs.d
       /\ IF mk.err THEN Exit(i, "fatal")
          ELSE Goto(i, stepAfter("createCommitDir"), [procs[i] EXCEPT !.path = mk.path])
  /\ UNCHANGED <<clock, names, staged, history>>

\* copyFilesToCommitDir up to the loop: vcs/commits is made when missing and
\* index.txt is read.
CommitReadIndex(i) ==
  /\ procs[i].pc = "readIndex"
  /\ dirs' = MkdirAll(Fs, commitDir).d
  /\ IF ~IsFile(Fs, indexFilePath) THEN Exit(i, "fatal")
     ELSE Goto(i, "copy", [procs[i] EXCEPT !.todo = IndexLines(Fs)])
  /\ UNCHANGED <<files, clock, names, staged, history>>

\* One round of the loop of copyFilesToCommitDir; after the last round the
\* next step of handleCommit.
CommitCopy(i) ==
  /\ procs[i].pc = "copy"
  /\ IF procs[i].todo = <<>>
     THEN Goto(i, stepAfter("copy"), procs[i]) /\ UNCHANGED <<files, dirs>>
     ELSE \E cp \in {copyFile(Fs, Head(procs[i].todo),
                               storePath(procs[i].path, Head(procs[i].todo)))} :
            /\ files' = cp.fs.f
            /\ dirs' = cp.fs.d
            /\ IF cp.err THEN Exit(i, "fatal")
               ELSE Goto(i, "copy", [procs[i] EXCEPT !.todo = Tail(procs[i].todo)])
  /\ UNCHANGED <<clock, names, staged, history>>

\* createLog: log.txt is read.
CommitReadLog(i) ==
  /\ procs[i].pc = "readLog"
  /\ Goto(i, "writeLog", [procs[i] EXCEPT !.existing = existingLogContent(Fs)])
  /\ UNCHANGED <<files, dirs, clock, names, staged, history>>

\* Mutant: the log is read again at the time of the write.
updatedLogContent_Fresh(fs, c, existing) == newCommitInfo(c) \o existingLogContent(fs)

\* The content createLog writes: the new entry before the content read.
updatedLogContent(fs, c, existing) == newCommitInfo(c) \o existing

\* createLog: log.txt is written.
CommitWriteLog(i) ==
  /\ procs[i].pc = "writeLog"
  /\ files' = WriteTo(Fs, logFilePath,
                      updatedLogContent(Fs, procs[i].commit, procs[i].existing)).f
  /\ history' = Append(history, Recorded(procs[i].commit))
  /\ Goto(i, stepAfter("writeLog"), procs[i])
  /\ UNCHANGED <<dirs, clock, names, staged>>

\* The invocation is terminated between two calls.
Kill(i) ==
  /\ procs[i].pc # "idle"
  /\ Exit(i, "killed")
  /\ UNCHANGED <<files, dirs, clock, names, staged, history>>

\* The state after "config alice" and the writing of the plain file.
InitSteps ==
  /\ files = (configPath :> <<"alice">>) @@ (FileA :> <<"hello">>)
  /\ dirs = {<<".">>, <<"vcs">>}
  /\ clock = 1
  /\ out = ""
  /\ names = {FileA}
  /\ staged = {}
  /\ history = <<>>
  /\ procs = [i \in Procs |-> Idle]

NextSteps ==
  \E i \in Procs :
     \/ AddCheck(i, FileA)
     \/ AddAppend(i)
     \/ CommitStart(i, <<<<"first">>>>)
     \/ CommitMkdir(i)
     \/ CommitReadIndex(i)
     \/ CommitCopy(i)
     \/ CommitReadLog(i)
     \/ CommitWriteLog(i)
     \/ Kill(i)

SpecSteps == InitSteps /\ [][NextSteps]_vars

\* The runs with the plain file in which the user also passes a path below a
\* file to add, and the empty string and ".." to checkout.
NextOdd ==
  \/ \E n \in Authors : Config(<<n>>)
  \/ \E p \in OddAddArgs : Add(<<p>>)
  \/ \E m \in Messages : Commit(<<m>>)
  \/ \E id \in OddCheckoutArgs : Checkout(<<id>>)
  \/ Log(<<>>)
  \/ \E p \in names : \E c \in Contents(p) : WriteFile(p, c)
  \/ \E p \in names : DeleteFile(p)

SpecOdd == InitPlain /\ [][NextOdd]_vars

\* The runs with the plain file in which the commit messages have several
\* lines; the user stages the file and checks out the commits made.
NextMsg ==
  \/ \E n \in Authors : Config(<<n>>)
  \/ \E p \in names : Add(<<p>>)
  \/ \E m \in LineMessages : Commit(<<m>>)
  \/ \E id \in ReadDir(Fs, commitDir) : Checkout(<<id>>)
  \/ Log(<<>>)
  \/ \E p \in names : \E c \in Contents(p) : WriteFile(p, c)
  \/ \E p \in names : DeleteFile(p)

SpecMsg == InitPlain /\ [][NextMsg]_vars

(***************************************************************************)
(* Views of the state used by the properties.                              *)
(***************************************************************************)
\* Number of lines of text that are exactly the string f.
Occurrences(text, f) ==
  Cardinality({i \in 1..Len(text) :
                 /\ i + Len(f) <= Len(text)
                 /\ SubSeq(text, i, i + Len(f)) = f \o <<NL>>
                 /\ (i = 1 \/ text[i - 1] = NL)})

\* The content of file p in the file map f, "" when there is no such file.
TextOf(f, p) == IF p \in DOMAIN f THEN f[p] ELSE <<>>

IndexText == IF IsFile(Fs, indexFilePath) THEN files[indexFilePath] ELSE <<>>

LogText == IF IsFile(Fs, logFilePath) THEN files[logFilePath] ELSE <<>>

\* The identifiers of the entries of log.txt, first entry first.
RECURSIVE EntryIds(_)
EntryIds(entries) ==
  IF entries = <<>> THEN <<>>
  ELSE LET first == Split(Head(entries), <<NL>>)[1]
       IN (IF HasPrefix(first, <<"commit ">>) THEN <<TrimPrefix(first, <<"commit ">>)>> ELSE <<>>)
            \o EntryIds(Tail(entries))

LogIds == EntryIds(Split(LogText, <<NL, NL>>))

\* The identifiers of the commits created so far, oldest first.
CreatedIds == [i \in DOMAIN history |-> history[i].commit.HashID]

Reverse(q) == [i \in DOMAIN q |-> q[Len(q) + 1 - i]]

SnapshotDirs == {d \in ReadDir(Fs, commitDir) : IsDir(Fs, Join(<<commitDir, d>>))}

NonEmptyMessages == {m \in Messages : getMessageFromArgs(<<m>>) # <<>>}

(***************************************************************************)
(* Properties.                                                             *)
(***************************************************************************)

\* C1: every path that was successfully staged occurs exactly once in the
\* staging index, however often it is staged again.
C1_StagedExactlyOnce ==
  \A f \in staged : Occurrences(IndexText, f) = 1

\* C2: a commit that immediately follows a successful commit (no edit, no
\* stage in between) is rejected with "Nothing to commit." and creates no
\* snapshot directory and no log entry.
C2_RepeatedCommitRejected ==
  [][(/\ out = "Changes are committed."
      /\ \E m \in NonEmptyMessages : Commit(<<m>>))
     => (/\ out' = "Nothing to commit."
         /\ dirs' = dirs
         /\ files' = files)]_vars

\* C3: checkout of a created commit leaves every file that was staged when
\* the commit was created with the content it had at commit time.
C3_CheckoutRestores ==
  [][\A i \in DOMAIN history :
       Checkout(<<history[i].commit.HashID>>)
         => \A p \in history[i].paths :
              /\ Clean(p) \in DOMAIN files'
              /\ files'[Clean(p)] = history[i].content[p]]_vars

\* C4: the log is newest-first: its entries are the created commits in
\* reverse order of creation, and the last-commit identifier read from the
\* log is the identifier of the most recently created commit.
C4_LogNewestFirst ==
  /\ LogIds = Reverse(CreatedIds)
  /\ history # <<>> => getLastCommitID(Fs).id = CreatedIds[Len(history)]

C4_Witness ==
  /\ Len(history) = 2
  /\ LogIds = <<CreatedIds[2], CreatedIds[1]>>
  /\ getLastCommitID(Fs).id = CreatedIds[2]

\* C5: a commit with a message, run while the staging index is empty, prints
\* "Nothing to commit." and leaves every file and directory as it was (no
\* snapshot directory, no log entry).
C5_EmptyIndexRejected ==
  [][(/\ IndexText = <<>>
      /\ \E m \in NonEmptyMessages : Commit(<<m>>))
     => (/\ out' = "Nothing to commit."
         /\ files' = files
         /\ dirs' = dirs)]_vars

C5_Witness ==
  /\ out = "Nothing to commit."
  /\ IndexText = <<>>
  /\ SnapshotDirs = {}
  /\ LogText = <<>>

\* C6: checkout of an identifier that is not the identifier of a created
\* commit prints "Commit does not exist." and creates or modifies no file.
C6_UnknownIdRejected ==
  [][\A id \in OddCheckoutArgs :
       (id \notin Range(CreatedIds) /\ Checkout(<<id>>))
         => (out' = "Commit does not exist." /\ files' = files)]_vars

\* C7: commit identifiers are unique: no two created commits have the same
\* identifier, no identifier occurs twice in the log, and every created
\* commit has a snapshot directory of its own.
C7_UniqueIds ==
  /\ \A i, j \in DOMAIN history : i # j => CreatedIds[i] # CreatedIds[j]
  /\ \A i, j \in DOMAIN LogIds : i # j => LogIds[i] # LogIds[j]
  /\ \A i \in DOMAIN history : CreatedIds[i] \in SnapshotDirs

C7_Witness ==
  /\ Len(history) = 2
  /\ history[1].index = history[2].index
  /\ CreatedIds[1] # CreatedIds[2]

\* C8: the identifiers in the log are exactly the snapshot directories under
\* vcs/commits.
C8_LogMatchesSnapshots ==
  Range(LogIds) = SnapshotDirs

\* C9: a successful commit stores, for every path of the staging index, a
\* copy of the path's working-tree content at the path's relative location
\* under the snapshot directory.
C9_SnapshotHoldsEveryPath ==
  [][Len(history') > Len(history)
     => LET id == history'[Len(history')].commit.HashID
            index == IndexLines(Fs)
        IN \A i \in DOMAIN index :
             LET stored == Join(<<commitDir, id, index[i]>>)
             IN /\ stored \in DOMAIN files'
                /\ files'[stored] = files[Clean(index[i])]]_vars

\* C10: when a last commit exists, the change detector answers "false"
\* exactly when every staged path is byte-identical to the copy the last
\* commit stored for it, and the place it inspects for a staged path is the
\* place the commit store wrote that path to.
C10_DetectorMatchesStore ==
  LET last == getLastCommitID(Fs).id
      index == IndexLines(Fs)
      stored(p) == storePath(commitDir \o <<SL>> \o last, p)
      same(p) == /\ IsFile(Fs, stored(p))
                 /\ IsFile(Fs, p)
                 /\ files[stored(p)] = files[Clean(p)]
  IN (last # <<>> /\ index # <<>>)
       => /\ (hasChanges(Fs, index, last) = "false")
               <=> (\A i \in DOMAIN index : same(index[i]))
          /\ \A i \in DOMAIN index : lastCommitFilePath(index[i], last) = stored(index[i])

\* C11: a commit whose message is empty or only white space prints
\* "Message was not passed.", whatever the state of the index (the message
\* is checked first), and leaves every file and directory as it was.
IsBlank(m) == \A i \in DOMAIN m : m[i] \in {" ", NL}

C11_BlankMessageRejected ==
  [][\A m \in Messages :
       (IsBlank(m) /\ Commit(<<m>>))
         => (/\ out' = "Message was not passed."
             /\ files' = files
             /\ dirs' = dirs)]_vars

C11_Witness ==
  /\ out = "Message was not passed."
  /\ IndexText = <<>>
  /\ ~IsFile(Fs, configPath)

\* C12: add of a path that does not exist in the working tree prints
\* "Can't find" and leaves the staging index as it was; this also holds for
\* a path that is staged already (the existence check comes first).
C12_MissingPathNotStaged ==
  [][\A p \in OddAddArgs :
       (~Exists(Fs, p) /\ Add(<<p>>))
         => (out' = "Can't find" /\ TextOf(files', indexFilePath) = IndexText)]_vars

\* C13: a successful checkout of id changes only working-tree files whose
\* names occur in snapshot id: every other file keeps its content, and the
\* index, the log, the files under vcs and all directories are unchanged.
Changed(p) == p \notin DOMAIN files \/ p \notin DOMAIN files' \/ files[p] # files'[p]

C13_CheckoutFrame ==
  [][out' = "Switched to commit" =>
     \A id \in CheckoutArgs :
       Checkout(<<id>>)
         => (/\ dirs' = dirs
             /\ \A p \in (DOMAIN files) \cup (DOMAIN files') :
                  Changed(p) => p \in ReadDir(Fs, Join(<<commitDir, id>>))
             /\ \A p \in DOMAIN files :
                  HasPrefix(p, <<"vcs", SL>>) => ~Changed(p)
             /\ TextOf(files', indexFilePath) = IndexText
             /\ TextOf(files', logFilePath) = LogText)]_vars

\* After a successful checkout there is a working-tree file that no snapshot
\* holds.
C13_Witness ==
  /\ out = "Switched to commit"
  /\ history # <<>>
  /\ \E p \in names :
       /\ p \in DOMAIN files
       /\ Len(Split(p, <<SL>>)) = 1
       /\ \A d \in SnapshotDirs : p \notin ReadDir(Fs, Join(<<commitDir, d>>))

\* C14: the staging index is changed only by a successful add: every step
\* that changes the content of index.txt is an add that printed "is
\* tracked."; commit (accepted or rejected) and checkout leave it as it was.
C14_IndexChangedOnlyByAdd ==
  [][TextOf(files', indexFilePath) # TextOf(files, indexFilePath) =>
       \E p \in AddArgs : Add(<<p>>) /\ out' = "is tracked."]_vars

\* After an accepted commit the two staged paths are still staged, in the
\* order they had when the commit was made.
C14_Witness ==
  /\ out = "Changes are committed."
  /\ Len(IndexLines(Fs)) = 2
  /\ IndexText = history[Len(history)].index

\* C18: checkout does not move the comparison base.  A commit that follows a
\* successful checkout is compared with the most recently created commit:
\* it is rejected when every staged file has the content it had at that
\* commit (checkout of the latest commit), and otherwise accepted, with a
\* snapshot that holds the checked-out content.  Stated for staged paths
\* outside vcs/ (for the others see C10).
Latest == history[Len(history)]

SameAsLatest ==
  \A l \in Range(IndexLines(Fs)) :
     /\ IsFile(Fs, l)
     /\ l \in Latest.paths
     /\ files[Clean(l)] = Latest.content[l]

AllStagedReadable == \A l \in Range(IndexLines(Fs)) : IsFile(Fs, l)

NoVcsPaths == \A l \in Range(IndexLines(Fs)) : ~HasPrefix(l, <<"vcs", SL>>)

C16_LogRoundTrip ==
  \A i \in DOMAIN history :
     findCommitById(Fs, CreatedIds[i]) = [status |-> "found", commit |-> history[i].commit]

\* C15: commits are immutable: no step changes, removes or adds a file in the
\* snapshot directory of a commit created before the step, and the log
\* before the step is the tail of the log after it.
InSnapshot(p, id) == HasPrefix(p, commitDir \o <<SL>> \o id \o <<SL>>)

IsTail(old, new) ==
  Len(old) <= Len(new) /\ SubSeq(new, Len(new) - Len(old) + 1, Len(new)) = old

C15_CommitsImmutable ==
  [][/\ \A i \in DOMAIN history :
          \A p \in (DOMAIN files) \cup (DOMAIN files') :
             InSnapshot(p, CreatedIds[i]) => ~Changed(p)
     /\ IsTail(TextOf(files, logFilePath), TextOf(files', logFilePath))]_vars

\* C17: at every step of a commit, and after an invocation was terminated
\* between two steps, every identifier in the log names a snapshot directory
\* that holds every file of that commit with the content it was committed
\* with (the log entry is written last).
C17_LoggedSnapshotsComplete ==
  \A id \in Range(LogIds) :
     /\ IsDir(Fs, Join(<<commitDir, id>>))
     /\ \E i \in DOMAIN history :
          /\ CreatedIds[i] = id
          /\ \A p \in history[i].paths :
               /\ IsFile(Fs, storePath(Join(<<commitDir, id>>), p))
               /\ files[storePath(Join(<<commitDir, id>>), p)] = history[i].content[p]

\* A commit is between its steps while the log holds the entry of an
\* earlier commit.
C17_Witness ==
  /\ Len(LogIds) = 1
  /\ \E i \in Procs :
       /\ procs[i].pc \in {"readIndex", "copy", "readLog", "writeLog"}
       /\ procs[i].commit.HashID \notin Range(LogIds)
       /\ IsDir(Fs, procs[i].path)

\* C19: invocations that run at the same time can corrupt the index and the
\* log.  An add that reaches createIndex after another invocation staged the
\* same path writes the path a second time; a commit that writes the log
\* after another invocation changed it since it was read removes an entry
\* from the log, while the snapshot directory of that entry stays.
C19_UnlockedWritesLoseUpdates ==
  [][\A i \in Procs :
       /\ (Occurrences(IndexText, procs[i].file) = 1 /\ AddAppend(i))
            => Occurrences(TextOf(files', indexFilePath), procs[i].file) = 2
       /\ (procs[i].existing # LogText /\ CommitWriteLog(i))
            => \E d \in SnapshotDirs :
                 /\ d \in Range(LogIds)
                 /\ d \notin Range(EntryIds(Split(TextOf(files', logFilePath), <<NL, NL>>)))]_vars

\* Both invocations of add and both invocations of commit have run to their
\* end: the path is in the index twice and one of the two snapshot
\* directories has no entry in the log.
C19_Witness ==
  /\ \A i \in Procs : procs[i].pc = "idle"
  /\ Occurrences(IndexText, FileA) = 2
  /\ Len(history) = 2
  /\ Cardinality(SnapshotDirs) = 2
  /\ Len(LogIds) = 1

====
